---- MODULE Spec2Model ----
(***************************************************************************)
(* Model of sleep-data.py: one run of main logs in to Garmin, fetches      *)
(* today's sleep summary, asks the Notion table whether a row with that    *)
(* 'Long Date' exists and, if not, creates one row.                        *)
(*                                                                         *)
(* Encoding of Python values.  A dict is a function whose DOMAIN is the    *)
(* set of keys present.  Integers are integers; None in a scalar position  *)
(* is -1 (stage seconds, heart rate and dates are never negative).  A      *)
(* calendarDate 'YYYY-MM-DD' is the integer YYYYMMDD; the literal default  *)
(* "Unknown Date" of create_sleep_data is -2.  A duration text             *)
(* '{h}h {m}m' is the record [h, m]; a title 'DD.MM.YYYY' is the record    *)
(* [dd, mm, yyyy]; an hour number with one decimal is kept in tenths.      *)
(* The two timestamp properties ('Times', 'Full Date/Time') are not part   *)
(* of the rows modelled here.                                              *)
(***************************************************************************)
EXTENDS Integers, Sequences, FiniteSets, TLC

VARIABLES
    table,       \* rows of the Notion database, in creation order
    pc,          \* where each run of main stands
    data,        \* the summary a run fetched (sleep_data of create_sleep_data)
    skip,        \* the skip_zero_sleep argument of create_sleep_data
    result,      \* how the run or call ended
    log,         \* external calls the run has issued, in order
    startTable,  \* the table as it was when the run began
    runs,        \* runs begun so far
    skipped,     \* dates for which a run ended in the zero-sleep skip
    fmtIn,       \* argument of a format_duration call
    fmtOut       \* its return value, <<>> before the call

vars == <<table, pc, data, skip, result, log, startTable, runs, skipped,
          fmtIn, fmtOut>>

-----------------------------------------------------------------------------
(* Bounds *)

MaxRuns == 3
NumProcs == 2
MaxSeconds == 7300

Procs == 1..NumProcs

-----------------------------------------------------------------------------
(* Python values *)

None == -1
UnknownDate == -2
NoneDict == [None |-> TRUE]
EmptyDict == <<>>

Truthy(v) == v # None /\ v # 0
TruthyDict(d) == d # NoneDict /\ d # EmptyDict

Get(d, k, default) == IF k \in DOMAIN d THEN d[k] ELSE default

StageKeys == {"deepSleepSeconds", "lightSleepSeconds", "remSleepSeconds",
              "awakeSleepSeconds"}
TotalKeys == <<"deepSleepSeconds", "lightSleepSeconds", "remSleepSeconds">>

-----------------------------------------------------------------------------
(* format_duration: minutes = (seconds or 0) // 60; '{m // 60}h {m % 60}m' *)

\* minutes rounded to the nearest instead of truncated
format_duration_rounded(seconds) ==
    LET minutes == ((IF Truthy(seconds) THEN seconds ELSE 0) + 30) \div 60
    IN  [h |-> minutes \div 60, m |-> minutes % 60]

format_duration(seconds) ==
    LET minutes == (IF Truthy(seconds) THEN seconds ELSE 0) \div 60
    IN  [h |-> minutes \div 60, m |-> minutes % 60]

-----------------------------------------------------------------------------
(* round(s / 3600, 1) on IEEE doubles, in tenths of an hour.  Off a tie    *)
(* the float error cannot change the side.  On a tie s = 360q + 180 the    *)
(* exact quotient is p/20 with p = 2q + 1: when 5 divides p the double is  *)
(* exact and round() takes the even tenth; otherwise the double nearest to *)
(* p/20 lies above or below it and round() follows the double.             *)

RECURSIVE FloorLog2(_)
FloorLog2(n) == IF n < 2 THEN 0 ELSE 1 + FloorLog2(n \div 2)

RECURSIVE ShiftsTo20(_)
ShiftsTo20(p) == IF p >= 20 THEN 0 ELSE 1 + ShiftsTo20(2 * p)

BinaryExponent(p) ==
    IF p >= 20 THEN FloorLog2(p \div 20) ELSE 0 - ShiftsTo20(p)

Pow2Mod20(e) ==
    CASE e % 4 = 0 -> 16
      [] e % 4 = 1 -> 12
      [] e % 4 = 2 -> 4
      [] e % 4 = 3 -> 8

DoubleAbove(p) ==
    ((p % 20) * Pow2Mod20(52 - BinaryExponent(p))) % 20 > 10

round_hours(s) ==
    LET q == s \div 360
        r == s % 360
        p == 2 * q + 1
    IN  IF r < 180 THEN q
        ELSE IF r > 180 THEN q + 1
        ELSE IF p % 5 = 0 THEN (IF q % 2 = 0 THEN q ELSE q + 1)
        ELSE IF DoubleAbove(p) THEN q + 1 ELSE q

-----------------------------------------------------------------------------
(* format_date_for_name: strptime(sleep_date, '%Y-%m-%d') then             *)
(* strftime('%d.%m.%Y'); "Unknown" for a falsy date; ValueError when the    *)
(* text is not a date.                                                     *)

IsLeap(y) == (y % 4 = 0 /\ y % 100 # 0) \/ y % 400 = 0

DaysIn(y, m) ==
    IF m = 2 THEN (IF IsLeap(y) THEN 29 ELSE 28)
    ELSE IF m \in {4, 6, 9, 11} THEN 30 ELSE 31

IsIsoDate(v) ==
    /\ v > 0
    /\ v \div 10000 \in 1..9999
    /\ (v \div 100) % 100 \in 1..12
    /\ v % 100 \in 1..DaysIn(v \div 10000, (v \div 100) % 100)

date_raises(sleep_date) == Truthy(sleep_date) /\ ~IsIsoDate(sleep_date)

format_date_for_name(sleep_date) ==
    IF Truthy(sleep_date)
    THEN [dd |-> sleep_date % 100, mm |-> (sleep_date \div 100) % 100,
          yyyy |-> sleep_date \div 10000]
    ELSE [text |-> "Unknown"]

-----------------------------------------------------------------------------
(* create_sleep_data: the values it computes before pages.create           *)

RECURSIVE SumOrZero(_, _, _)
SumOrZero(d, keys, i) ==
    IF i > Len(keys) THEN 0
    ELSE (IF Truthy(Get(d, keys[i], 0)) THEN Get(d, keys[i], 0) ELSE 0)
         + SumOrZero(d, keys, i + 1)

\* awake seconds summed into the total
total_sleep_with_awake(daily_sleep) ==
    SumOrZero(daily_sleep, TotalKeys \o <<"awakeSleepSeconds">>, 1)

total_sleep(daily_sleep) == SumOrZero(daily_sleep, TotalKeys, 1)

daily_sleep_of(sleep_data) == Get(sleep_data, "dailySleepDTO", EmptyDict)

sleep_date_of(daily_sleep) == Get(daily_sleep, "calendarDate", UnknownDate)

\* x / 3600 with x = None raises TypeError
division_raises(daily_sleep) ==
    \E k \in StageKeys : Get(daily_sleep, k, 0) = None

properties(sleep_data) ==
    LET daily_sleep == daily_sleep_of(sleep_data)
        sleep_date  == sleep_date_of(daily_sleep)
        total       == total_sleep(daily_sleep)
    IN  [Date        |-> format_date_for_name(sleep_date),
         LongDate    |-> sleep_date,
         TotalSleepH |-> round_hours(total),
         LightSleepH |-> round_hours(Get(daily_sleep, "lightSleepSeconds", 0)),
         DeepSleepH  |-> round_hours(Get(daily_sleep, "deepSleepSeconds", 0)),
         REMSleepH   |-> round_hours(Get(daily_sleep, "remSleepSeconds", 0)),
         AwakeTimeH  |-> round_hours(Get(daily_sleep, "awakeSleepSeconds", 0)),
         TotalSleep  |-> format_duration(total),
         LightSleep  |-> format_duration(Get(daily_sleep, "lightSleepSeconds", 0)),
         DeepSleep   |-> format_duration(Get(daily_sleep, "deepSleepSeconds", 0)),
         REMSleep    |-> format_duration(Get(daily_sleep, "remSleepSeconds", 0)),
         AwakeTime   |-> format_duration(Get(daily_sleep, "awakeSleepSeconds", 0)),
         RestingHR   |-> Get(sleep_data, "restingHeartRate", 0)]

\* How a call of create_sleep_data ends, short of the outcome of pages.create
create_outcome(sleep_data, skip_zero_sleep) ==
    LET daily_sleep == daily_sleep_of(sleep_data)
    IN  IF ~TruthyDict(daily_sleep) THEN "no_dto"
        ELSE IF skip_zero_sleep /\ total_sleep(daily_sleep) = 0 THEN "skipped"
        ELSE IF date_raises(sleep_date_of(daily_sleep)) THEN "ValueError"
        ELSE IF division_raises(daily_sleep) THEN "TypeError"
        ELSE "pages.create"

-----------------------------------------------------------------------------
(* The Notion table *)

\* the filter applied to the title property, which never equals an ISO date
query_results_on_title(tbl, sleep_date) ==
    SelectSeq(tbl, LAMBDA row : row.Date = [text |-> sleep_date])

\* databases.query with filter 'Long Date' equals sleep_date
query_results(tbl, sleep_date) ==
    SelectSeq(tbl, LAMBDA row : row.LongDate = sleep_date)

\* reports a match only from the second result on
sleep_data_exists_second(tbl, sleep_date) ==
    Len(query_results(tbl, sleep_date)) > 1

\* sleep_data_exists returns results[0] if results else None
sleep_data_exists(tbl, sleep_date) == query_results(tbl, sleep_date) # <<>>

\* the newest row is updated in place instead of a row being added
pages_create_overwriting(tbl, props) ==
    IF tbl = <<>> THEN <<props>> ELSE [tbl EXCEPT ![Len(tbl)] = props]

\* pages.create adds one row
pages_create(tbl, props) == Append(tbl, props)

\* the guard without the existence check
should_create_unchecked(sleep_date, exists) == Truthy(sleep_date)

\* main, line 112: if sleep_date and not sleep_data_exists(...)
should_create(sleep_date, exists) == Truthy(sleep_date) /\ ~exists

-----------------------------------------------------------------------------
(* Inputs *)

Dates == {20240330, 20240331}

\* what get_sleep_data may return in a run of main
RunStageValues == {None, 0, 3661}
RunDTOs ==
    { [calendarDate |-> cd, deepSleepSeconds |-> d, lightSleepSeconds |-> l,
       remSleepSeconds |-> r, awakeSleepSeconds |-> a] :
         cd \in Dates \cup {None}, d \in RunStageValues, l \in RunStageValues,
         r \in RunStageValues, a \in RunStageValues }
    \cup { [deepSleepSeconds |-> 3661, lightSleepSeconds |-> 3661] }
RunSummaries ==
    {EmptyDict, [restingHeartRate |-> 52],
     [dailySleepDTO |-> NoneDict, restingHeartRate |-> 52],
     [dailySleepDTO |-> EmptyDict, restingHeartRate |-> 52]}
    \cup { [dailySleepDTO |-> dto, restingHeartRate |-> 52] : dto \in RunDTOs }

\* what two overlapping runs fetch
RaceSummaries ==
    { [dailySleepDTO |-> [calendarDate |-> cd, deepSleepSeconds |-> d,
                          lightSleepSeconds |-> 3661, remSleepSeconds |-> 0,
                          awakeSleepSeconds |-> 0],
       restingHeartRate |-> 52] : cd \in Dates, d \in {0, 3661} }

Call(op, arg, ok, found) == [op |-> op, arg |-> arg, ok |-> ok, found |-> found]

-----------------------------------------------------------------------------
(* main *)

\* line 111: sleep_date = data.get('dailySleepDTO', {}).get('calendarDate')
main_sleep_date(sleep_data) ==
    Get(daily_sleep_of(sleep_data), "calendarDate", None)

BeginRun(p) ==
    /\ runs < MaxRuns
    /\ runs' = runs + 1
    /\ pc' = [pc EXCEPT ![p] = "login"]
    /\ data' = [data EXCEPT ![p] = EmptyDict]
    /\ skip' = [skip EXCEPT ![p] = TRUE]
    /\ result' = [result EXCEPT ![p] = "running"]
    /\ log' = [log EXCEPT ![p] = <<>>]
    /\ startTable' = [startTable EXCEPT ![p] = table]
    /\ UNCHANGED <<table, skipped, fmtIn, fmtOut>>

\* a process starts its run of main
MainStart(p) ==
    /\ pc[p] = "idle"
    /\ BeginRun(p)

\* the next scheduled run, after the previous one has ended
MainAgain(p) ==
    /\ pc[p] \in {"done", "failed"}
    /\ BeginRun(p)

Fail(p, err) ==
    /\ pc' = [pc EXCEPT ![p] = "failed"]
    /\ result' = [result EXCEPT ![p] = err]

\* garmin.login()
Login(p) ==
    /\ pc[p] = "login"
    /\ \E ok \in BOOLEAN :
         /\ log' = [log EXCEPT ![p] = Append(@, Call("login", None, ok, FALSE))]
         /\ IF ok
            THEN pc' = [pc EXCEPT ![p] = "fetch"] /\ UNCHANGED result
            ELSE Fail(p, "LoginError")
    /\ UNCHANGED <<table, data, skip, startTable, runs, skipped, fmtIn, fmtOut>>

\* data = get_sleep_data(garmin), then lines 110-112 up to the query
Fetch(p, summaries) ==
    /\ pc[p] = "fetch"
    /\ \/ /\ log' = [log EXCEPT ![p] = Append(@, Call("get_sleep_data", None, FALSE, FALSE))]
          /\ Fail(p, "FetchError")
          /\ UNCHANGED data
       \/ \E s \in summaries :
            /\ log' = [log EXCEPT ![p] = Append(@, Call("get_sleep_data", None, TRUE, FALSE))]
            /\ data' = [data EXCEPT ![p] = s]
            /\ IF s = EmptyDict
               THEN /\ pc' = [pc EXCEPT ![p] = "done"]
                    /\ result' = [result EXCEPT ![p] = "no_data"]
               ELSE IF daily_sleep_of(s) = NoneDict
               THEN Fail(p, "AttributeError")
               ELSE IF ~Truthy(main_sleep_date(s))
               THEN /\ pc' = [pc EXCEPT ![p] = "done"]
                    /\ result' = [result EXCEPT ![p] = "no_date"]
               ELSE pc' = [pc EXCEPT ![p] = "query"] /\ UNCHANGED result
    /\ UNCHANGED <<table, skip, startTable, runs, skipped, fmtIn, fmtOut>>

\* a failed query swallowed and read as "no row"
SleepDataExists_swallowing(p) ==
    /\ pc[p] = "query"
    /\ LET sleep_date == main_sleep_date(data[p])
           exists == sleep_data_exists(table, sleep_date)
       IN  \/ /\ log' = [log EXCEPT ![p] = Append(@, Call("databases.query", sleep_date, FALSE, FALSE))]
              /\ pc' = [pc EXCEPT ![p] = "create"]
              /\ UNCHANGED result
           \/ /\ log' = [log EXCEPT ![p] = Append(@, Call("databases.query", sleep_date, TRUE, exists))]
              /\ IF should_create(sleep_date, exists)
                 THEN pc' = [pc EXCEPT ![p] = "create"] /\ UNCHANGED result
                 ELSE /\ pc' = [pc EXCEPT ![p] = "done"]
                      /\ result' = [result EXCEPT ![p] = "exists"]
    /\ UNCHANGED <<table, data, skip, startTable, runs, skipped, fmtIn, fmtOut>>

\* sleep_data_exists(client, database_id, sleep_date) and the guard of line 112
SleepDataExists(p) ==
    /\ pc[p] = "query"
    /\ LET sleep_date == main_sleep_date(data[p])
           exists == sleep_data_exists(table, sleep_date)
       IN  \/ /\ log' = [log EXCEPT ![p] = Append(@, Call("databases.query", sleep_date, FALSE, FALSE))]
              /\ Fail(p, "QueryError")
           \/ /\ log' = [log EXCEPT ![p] = Append(@, Call("databases.query", sleep_date, TRUE, exists))]
              /\ IF should_create(sleep_date, exists)
                 THEN pc' = [pc EXCEPT ![p] = "create"] /\ UNCHANGED result
                 ELSE /\ pc' = [pc EXCEPT ![p] = "done"]
                      /\ result' = [result EXCEPT ![p] = "exists"]
    /\ UNCHANGED <<table, data, skip, startTable, runs, skipped, fmtIn, fmtOut>>

\* create_sleep_data(client, database_id, data, skip_zero_sleep)
CreateSleepData(p) ==
    /\ pc[p] = "create"
    /\ LET outcome == create_outcome(data[p], skip[p])
           props == properties(data[p])
       IN  CASE outcome = "no_dto" ->
                  /\ pc' = [pc EXCEPT ![p] = "done"]
                  /\ result' = [result EXCEPT ![p] = outcome]
                  /\ UNCHANGED <<table, log, skipped>>
             [] outcome = "skipped" ->
                  /\ pc' = [pc EXCEPT ![p] = "done"]
                  /\ result' = [result EXCEPT ![p] = outcome]
                  /\ skipped' = skipped \cup {sleep_date_of(daily_sleep_of(data[p]))}
                  /\ UNCHANGED <<table, log>>
             [] outcome \in {"ValueError", "TypeError"} ->
                  /\ Fail(p, outcome)
                  /\ UNCHANGED <<table, log, skipped>>
             [] outcome = "pages.create" ->
                  \/ /\ table' = pages_create(table, props)
                     /\ log' = [log EXCEPT ![p] = Append(@, Call("pages.create", props.LongDate, TRUE, FALSE))]
                     /\ pc' = [pc EXCEPT ![p] = "done"]
                     /\ result' = [result EXCEPT ![p] = "created"]
                     /\ UNCHANGED skipped
                  \/ /\ log' = [log EXCEPT ![p] = Append(@, Call("pages.create", props.LongDate, FALSE, FALSE))]
                     /\ Fail(p, "CreateError")
                     /\ UNCHANGED <<table, skipped>>
    /\ UNCHANGED <<data, skip, startTable, runs, fmtIn, fmtOut>>

-----------------------------------------------------------------------------
(* Runs of main one after another *)

Init ==
    /\ table = <<>>
    /\ pc = [p \in Procs |-> "idle"]
    /\ data = [p \in Procs |-> EmptyDict]
    /\ skip = [p \in Procs |-> TRUE]
    /\ result = [p \in Procs |-> "idle"]
    /\ log = [p \in Procs |-> <<>>]
    /\ startTable = [p \in Procs |-> <<>>]
    /\ runs = 0
    /\ skipped = {}
    /\ fmtIn = None
    /\ fmtOut = <<>>

Next ==
    \/ MainStart(1)
    \/ MainAgain(1)
    \/ Login(1)
    \/ Fetch(1, RunSummaries)
    \/ SleepDataExists(1)
    \/ CreateSleepData(1)

Spec == Init /\ [][Next]_vars

-----------------------------------------------------------------------------
(* Runs of main that overlap: each process runs main once *)

NextRace ==
    \E p \in Procs :
        \/ MainStart(p)
        \/ Login(p)
        \/ Fetch(p, RaceSummaries)
        \/ SleepDataExists(p)
        \/ CreateSleepData(p)

SpecRace == Init /\ [][NextRace]_vars

-----------------------------------------------------------------------------
(* create_sleep_data called on its own, with either value of the flag *)

CreateStageValues == {None, 0, 900, 1800, 3600, 7200}
StageDicts == UNION { [K -> CreateStageValues] : K \in SUBSET StageKeys }
DateDicts == {EmptyDict} \cup { [calendarDate |-> v] : v \in {None, 20240330} }
CreateDTOs == { s @@ d : s \in StageDicts, d \in DateDicts }
CreateSummaries ==
    {EmptyDict, [dailySleepDTO |-> NoneDict]}
    \cup { [dailySleepDTO |-> dto] @@ h :
             dto \in CreateDTOs, h \in {EmptyDict, [restingHeartRate |-> 52]} }

InitCreate ==
    /\ table = <<>>
    /\ pc = [p \in Procs |-> IF p = 1 THEN "create" ELSE "idle"]
    /\ \E s \in CreateSummaries : data = [p \in Procs |-> IF p = 1 THEN s ELSE EmptyDict]
    /\ \E b \in BOOLEAN : skip = [p \in Procs |-> IF p = 1 THEN b ELSE TRUE]
    /\ result = [p \in Procs |-> IF p = 1 THEN "running" ELSE "idle"]
    /\ log = [p \in Procs |-> <<>>]
    /\ startTable = [p \in Procs |-> <<>>]
    /\ runs = 0
    /\ skipped = {}
    /\ fmtIn = None
    /\ fmtOut = <<>>

NextCreate == CreateSleepData(1)

SpecCreate == InitCreate /\ [][NextCreate]_vars

-----------------------------------------------------------------------------
(* format_duration called on its own *)

FormatDuration ==
    /\ fmtOut = <<>>
    /\ fmtOut' = format_duration(fmtIn)
    /\ UNCHANGED <<table, pc, data, skip, result, log, startTable, runs,
                   skipped, fmtIn>>

InitFmt ==
    /\ table = <<>>
    /\ pc = [p \in Procs |-> "idle"]
    /\ data = [p \in Procs |-> EmptyDict]
    /\ skip = [p \in Procs |-> TRUE]
    /\ result = [p \in Procs |-> "idle"]
    /\ log = [p \in Procs |-> <<>>]
    /\ startTable = [p \in Procs |-> <<>>]
    /\ runs = 0
    /\ skipped = {}
    /\ fmtIn \in {None} \cup 0..MaxSeconds
    /\ fmtOut = <<>>

NextFmt == FormatDuration

SpecFmt == InitFmt /\ [][NextFmt]_vars

-----------------------------------------------------------------------------
(* Properties *)

Ended(p) == pc[p] \in {"done", "failed"}

RowsFor(tbl, d) == {i \in 1..Len(tbl) : tbl[i].LongDate = d}

Issued(p, op) == \E i \in 1..Len(log[p]) : log[p][i].op = op

IsPrefix(s, t) == Len(s) <= Len(t) /\ SubSeq(t, 1, Len(s)) = s

FetchedDate(p) == main_sleep_date(data[p])

\* C1: with runs of main one after another, the table never holds two rows
\* with the same 'Long Date', and a run whose existence query found a row
\* issues no pages.create.
C1_OneRecordPerDate ==
    /\ \A i, j \in 1..Len(table) :
         table[i].LongDate = table[j].LongDate => i = j
    /\ \A i \in 1..Len(log[1]) :
         (log[1][i].op = "databases.query" /\ log[1][i].found)
            => ~Issued(1, "pages.create")

C1_Witness ==
    /\ result[1] = "exists"
    /\ Cardinality(RowsFor(table, FetchedDate(1))) = 1
    /\ table = startTable[1]

\* C4: format_duration(s) gives h = s div 3600 and m = (s div 60) mod 60,
\* with 0 <= m < 60 and h*3600 + m*60 <= s < h*3600 + m*60 + 60; None is
\* formatted as 0 is, '0h 0m'.
C4_FormatDuration ==
    fmtOut # <<>> =>
        LET s == IF fmtIn = None THEN 0 ELSE fmtIn
        IN  /\ fmtOut.h = s \div 3600
            /\ fmtOut.m = (s \div 60) % 60
            /\ fmtOut.m >= 0 /\ fmtOut.m < 60
            /\ fmtOut.h * 3600 + fmtOut.m * 60 <= s
            /\ s < fmtOut.h * 3600 + fmtOut.m * 60 + 60
            /\ (fmtIn = None => fmtOut = [h |-> 0, m |-> 0])

C4_Witness == fmtIn = 3661 /\ fmtOut = [h |-> 1, m |-> 1]

\* C5: the external calls of a run are login, get_sleep_data,
\* databases.query, pages.create in that order, each at most once; a
\* pages.create is issued only for a non-empty summary whose calendarDate
\* was queried earlier in the run with no match; a run that issues no
\* successful pages.create leaves the table as it found it.
C5_CreateOnlyAfterMiss ==
    LET L == log[1]
        order == <<"login", "get_sleep_data", "databases.query", "pages.create">>
    IN  /\ Len(L) <= 4
        /\ \A i \in 1..Len(L) : L[i].op = order[i]
        /\ Len(L) = 4 =>
             /\ data[1] # EmptyDict
             /\ Truthy(FetchedDate(1))
             /\ L[3].arg = FetchedDate(1)
             /\ L[3].ok /\ ~L[3].found
             /\ L[4].arg = FetchedDate(1)
        /\ (~\E i \in 1..Len(L) : L[i].op = "pages.create" /\ L[i].ok)
             => table = startTable[1]
        /\ result[1] \in {"no_data", "no_date", "exists"}
             => pc[1] = "done" /\ ~Issued(1, "pages.create")

C5_Witness ==
    /\ result[1] = "created"
    /\ Len(log[1]) = 4
    /\ Len(startTable[1]) = 1
    /\ Len(table) = 2

\* C6: every step leaves the rows already stored in place and unchanged;
\* rows are only added.
C6_RecordsNeverChange == [][IsPrefix(table, table')]_vars

C6_Witness ==
    /\ result[1] = "exists"
    /\ ~division_raises(daily_sleep_of(data[1]))
    /\ \E i \in 1..Len(table) :
         /\ table[i].LongDate = FetchedDate(1)
         /\ table[i] # properties(data[1])
    /\ table = startTable[1]

\* C7: a failed call is the last call of its run and no call is issued
\* twice; a run that ended with the failure of login, get_sleep_data or
\* databases.query issued no pages.create and left the table as it was at
\* the start of the run.
C7_FailureEndsRun ==
    LET L == log[1]
    IN  /\ \A i \in 1..Len(L) : ~L[i].ok => (i = Len(L) /\ pc[1] = "failed")
        /\ \A i, j \in 1..Len(L) : L[i].op = L[j].op => i = j
        /\ result[1] \in {"LoginError", "FetchError", "QueryError"} =>
             /\ pc[1] = "failed"
             /\ L # <<>> /\ ~L[Len(L)].ok
             /\ L[Len(L)].op =
                  (CASE result[1] = "LoginError" -> "login"
                     [] result[1] = "FetchError" -> "get_sleep_data"
                     [] result[1] = "QueryError" -> "databases.query")
             /\ ~Issued(1, "pages.create")
             /\ table = startTable[1]

C7_Witness ==
    /\ result[1] = "QueryError"
    /\ pc[1] = "failed"
    /\ Len(table) = 1

\* C8: with overlapping runs the existence check is a point-in-time read:
\* a run goes on to create only when the table holds no row for its date at
\* the moment of the query, and two rows with the same date exist only when
\* two different runs each queried that date without a match and each
\* created a row.
C8_DuplicateOnlyByRace ==
    /\ [][\A p \in Procs :
            (pc[p] = "query" /\ pc'[p] = "create")
               => RowsFor(table, FetchedDate(p)) = {}]_vars
    /\ [](\A i, j \in 1..Len(table) :
            (i < j /\ table[i].LongDate = table[j].LongDate) =>
               \E p, q \in Procs :
                  /\ p # q
                  /\ \A r \in {p, q} :
                       /\ result[r] = "created"
                       /\ FetchedDate(r) = table[i].LongDate
                       /\ \E k \in 1..Len(log[r]) :
                            /\ log[r][k].op = "databases.query"
                            /\ log[r][k].arg = table[i].LongDate
                            /\ log[r][k].ok /\ ~log[r][k].found)

C8_Witness ==
    \E i, j \in 1..Len(table) :
        /\ i < j
        /\ table[i].LongDate = table[j].LongDate
        /\ result[1] = "created" /\ result[2] = "created"

CreateCalls(p) == {i \in 1..Len(log[p]) : log[p][i].op = "pages.create"}

IntStages(dto) == \A k \in StageKeys : k \in DOMAIN dto /\ dto[k] >= 0

\* a missing or None stage value read as zero
Zeroed(dto, k) == IF Get(dto, k, 0) = None THEN 0 ELSE Get(dto, k, 0)

\* C2: for a non-empty dailySleepDTO whose deep, light and REM seconds are
\* all 0, create_sleep_data issues no pages.create when skip_zero_sleep is
\* True and exactly one when it is False.
C2_SkipZero ==
    LET dto == daily_sleep_of(data[1])
    IN  (/\ pc[1] # "create"
         /\ TruthyDict(dto)
         /\ \A i \in 1..Len(TotalKeys) :
              TotalKeys[i] \in DOMAIN dto /\ dto[TotalKeys[i]] = 0)
        => IF skip[1] THEN CreateCalls(1) = {}
                      ELSE Cardinality(CreateCalls(1)) = 1

\* C3: when all four stage seconds are non-negative integers, the total
\* that create_sleep_data tests against zero and stores as 'Total Sleep (h)'
\* and 'Total Sleep' is deep + light + REM, whatever the awake seconds are.
C3_TotalExcludesAwake ==
    LET dto == daily_sleep_of(data[1])
        t == dto.deepSleepSeconds + dto.lightSleepSeconds + dto.remSleepSeconds
    IN  (pc[1] # "create" /\ TruthyDict(dto) /\ IntStages(dto)) =>
          /\ (result[1] = "skipped") <=> (skip[1] /\ t = 0)
          /\ result[1] = "created" =>
               /\ table[1].TotalSleepH = round_hours(t)
               /\ table[1].TotalSleep = format_duration(t)

C3_Witness ==
    /\ result[1] = "created"
    /\ IntStages(daily_sleep_of(data[1]))
    /\ daily_sleep_of(data[1]).deepSleepSeconds = 3600
    /\ daily_sleep_of(data[1]).lightSleepSeconds = 3600
    /\ daily_sleep_of(data[1]).remSleepSeconds = 1800
    /\ daily_sleep_of(data[1]).awakeSleepSeconds = 7200
    /\ table[1].TotalSleepH = 25
    /\ table[1].TotalSleep = [h |-> 2, m |-> 30]

\* C9: a zero-sleep skip writes nothing; a later run for a skipped date
\* that fetches a non-zero total and whose login, fetch and query succeed
\* ends with exactly one row for that date; every row main writes comes
\* from a summary with non-zero total sleep.
C9_ZeroSkipDoesNotBlock ==
    LET dto == daily_sleep_of(data[1])
        d == FetchedDate(1)
    IN  /\ result[1] = "skipped" => table = startTable[1]
        /\ result[1] = "created" => total_sleep(dto) > 0
        /\ (/\ Ended(1)
            /\ data[1] # EmptyDict /\ TruthyDict(dto)
            /\ Truthy(d) /\ d \in skipped
            /\ total_sleep(dto) > 0
            /\ Len(log[1]) >= 3
            /\ \A i \in 1..Len(log[1]) : log[1][i].ok)
           => Cardinality(RowsFor(table, d)) = 1

\* C10: for a summary that carries a calendar date, every stage field that
\* is absent or None counts as zero in the total, in its hour number and in
\* its duration text; a non-zero total leads to exactly one pages.create; a
\* failure while building the fields comes before pages.create and writes
\* nothing.
C10_UniformMissingPolicy ==
    LET dto == daily_sleep_of(data[1])
        t == Zeroed(dto, "deepSleepSeconds") + Zeroed(dto, "lightSleepSeconds")
               + Zeroed(dto, "remSleepSeconds")
    IN  (pc[1] # "create" /\ TruthyDict(dto) /\ IsIsoDate(sleep_date_of(dto))) =>
          /\ t # 0 => Cardinality(CreateCalls(1)) = 1
          /\ result[1] = "created" =>
               /\ table[1].TotalSleepH = round_hours(t)
               /\ table[1].TotalSleep = format_duration(t)
               /\ table[1].DeepSleepH = round_hours(Zeroed(dto, "deepSleepSeconds"))
               /\ table[1].LightSleepH = round_hours(Zeroed(dto, "lightSleepSeconds"))
               /\ table[1].REMSleepH = round_hours(Zeroed(dto, "remSleepSeconds"))
               /\ table[1].AwakeTimeH = round_hours(Zeroed(dto, "awakeSleepSeconds"))
               /\ table[1].DeepSleep = format_duration(Zeroed(dto, "deepSleepSeconds"))
               /\ table[1].LightSleep = format_duration(Zeroed(dto, "lightSleepSeconds"))
               /\ table[1].REMSleep = format_duration(Zeroed(dto, "remSleepSeconds"))
               /\ table[1].AwakeTime = format_duration(Zeroed(dto, "awakeSleepSeconds"))
          /\ result[1] \in {"ValueError", "TypeError"} =>
               CreateCalls(1) = {} /\ table = <<>>

====
